---------------------------- MODULE Spec2Model ----------------------------
(***************************************************************************)
(* UniqueTogetherMixin.clean (modelforms/mixins.py) as a state machine.    *)
(*                                                                         *)
(* The state is a model's declared uniqueness groups (opts), the table of  *)
(* persisted records (store), one bound ModelForm (instance, form_fields,  *)
(* cleaned_data) and what one call of clean() produced: the error mapping, *)
(* whether ValidationError was raised, and the existence queries issued.   *)
(***************************************************************************)
EXTENDS Integers, Sequences, FiniteSets, TLC

VARIABLES
    opts,          \* model._meta: [unique_together, constraints]
    store,         \* manager's table: sequence of records, pk = index
    instance,      \* self.instance: [pk, attrs]
    form_fields,   \* set(self.fields.keys())
    cleaned_data,  \* self.cleaned_data: field -> cleaned value (partial)
    super_clean,   \* what super().clean() did in the last call of clean()
    errors,        \* the errors dict at the end of clean()
    raised,        \* clean() raised ValidationError(errors)
    lookups,       \* field_name -> kw of the queryset.filter(**kw).exists() issued
    queries,       \* number of exists() queries issued by clean()
    pc             \* "idle" | "bound" | "cleaned"

vars == <<opts, store, instance, form_fields, cleaned_data, super_clean,
          errors, raised, lookups, queries, pc>>

---------------------------------------------------------------------------
\* Bounds and input domains

\* Largest number of persisted records.
MaxRecords == 2

\* The model's fields (tests/models.py: Book).
Fields == {"title", "author", "rrp"}

\* Python's None / SQL NULL.
None == "None"

\* instance.pk of an unsaved instance (None); persisted pks are 1..Len(store).
NoPk == 0

\* Concrete field values.
Values == {"x", "y"}

\* Fields declared null=True, blank=True: a row may hold NULL there and the
\* form may clean the field to None.
Nullable == {"rrp"}

FieldValues(f) == IF f \in Nullable THEN Values \cup {None} ELSE Values

\* forms.forms.NON_FIELD_ERRORS, the key update_error_dict gives a list error.
NON_FIELD_ERRORS == "__all__"

EmptyDict == [f \in {} |-> None]

Range(s) == {s[i] : i \in DOMAIN s}

\* All rows of the table.
Rows == {r \in [Fields -> Values \cup {None}] : \A f \in Fields : r[f] \in FieldValues(f)}

\* A dict with keys among S and, per key, a value of that field.
Dicts(S) == UNION {{d \in [D -> Values \cup {None}] : \A f \in D : d[f] \in FieldValues(f)} : D \in SUBSET S}

---------------------------------------------------------------------------
\* Model metadata

UniqueConstraint(fields, condition, expressions) ==
    [kind |-> "UniqueConstraint", fields |-> fields,
     condition |-> condition, expressions |-> expressions]

CheckConstraint == [kind |-> "CheckConstraint", fields |-> <<>>,
                    condition |-> TRUE, expressions |-> FALSE]

\* tests/models.py Magazine: one conditionless UniqueConstraint
\* (publisher is the related field, here "author").
MagazineMeta == [unique_together |-> <<>>,
                 constraints |-> << UniqueConstraint(<<"title", "author">>, FALSE, FALSE) >>]

\* Two overlapping groups: ("title", "author") and ("author", "rrp").
OverlapMeta == [unique_together |-> << <<"title", "author">> >>,
                constraints |-> << UniqueConstraint(<<"author", "rrp">>, FALSE, FALSE) >>]

\* tests/models.py Book: Meta.unique_together = (("title", "author"),), and
\* beside it a conditional constraint, an expression constraint and a check
\* constraint.
ConditionalMeta == [unique_together |-> << <<"title", "author">> >>,
                    constraints |-> << UniqueConstraint(<<"title", "rrp">>, TRUE, FALSE),
                                       UniqueConstraint(<<>>, FALSE, TRUE),
                                       CheckConstraint >>]

ModelMetas == {MagazineMeta, OverlapMeta, ConditionalMeta}

---------------------------------------------------------------------------
\* clean(), line by line

\* Faulty variant of IsApplicable: the condition of the constraint is not looked at.
IsApplicable_IgnoresCondition(constraint) ==
    /\ constraint.kind = "UniqueConstraint"
    /\ ~constraint.expressions
    /\ constraint.fields # <<>>

\* mixins.py 39-43: the constraint is validated by the mixin.
IsApplicable(constraint) ==
    /\ constraint.kind = "UniqueConstraint"
    /\ ~constraint.condition
    /\ ~constraint.expressions
    /\ constraint.fields # <<>>

RECURSIVE ConstraintFieldSets(_)
ConstraintFieldSets(constraints) ==
    IF constraints = <<>> THEN <<>>
    ELSE (IF IsApplicable(Head(constraints)) THEN <<Head(constraints).fields>> ELSE <<>>)
         \o ConstraintFieldSets(Tail(constraints))

\* mixins.py 28-44: unique_field_sets.
unique_field_sets(o) == o.unique_together \o ConstraintFieldSets(o.constraints)

\* Faulty variant of unique_together: the merge follows shared fields transitively,
\* so a field's set also takes in the groups that overlap its own groups.
unique_together_Transitive(ff, sets) ==
    LET Touching(S) == UNION {Range(sets[i]) : i \in {j \in DOMAIN sets : Range(sets[j]) \cap S # {}}}
    IN  [field_name \in {f \in ff : \E i \in DOMAIN sets : f \in Range(sets[i])} |->
            Touching(Touching(Touching({field_name})))]

\* Faulty variant of unique_together: keyed by every field of a group the form
\* touches, bound on the form or not.
unique_together_AllGroupFields(ff, sets) ==
    [field_name \in UNION {Range(sets[i]) : i \in {j \in DOMAIN sets : Range(sets[j]) \cap ff # {}}} |->
        UNION {Range(sets[i]) : i \in {j \in DOMAIN sets : field_name \in Range(sets[j])}}]

\* mixins.py 48-53: the dict unique_together, form field -> union of the
\* field sets that contain it.
unique_together(ff, sets) ==
    [field_name \in {f \in ff : \E i \in DOMAIN sets : f \in Range(sets[i])} |->
        UNION {Range(sets[i]) : i \in {j \in DOMAIN sets : field_name \in Range(sets[j])}}]

\* Faulty variant of Resolve: cleaned_data.get(f) or getattr(...), which drops a
\* cleaned value of None.
Resolve_FalsyFallsBack(cd, inst, f) ==
    IF f \in DOMAIN cd /\ cd[f] # None THEN cd[f]
    ELSE IF f \in DOMAIN inst.attrs THEN inst.attrs[f]
    ELSE None

\* mixins.py 58: self.cleaned_data.get(f, getattr(self.instance, f, None)).
Resolve(cd, inst, f) ==
    IF f \in DOMAIN cd THEN cd[f]
    ELSE IF f \in DOMAIN inst.attrs THEN inst.attrs[f]
    ELSE None

\* mixins.py 57-60: kw.
kw(cd, inst, group) == [f \in group |-> Resolve(cd, inst, f)]

\* Faulty variant of queryset: the instance's own row is not excluded.
queryset_NoExclude(st, pk) == DOMAIN st

\* Faulty variant of queryset: exclude(pk=None) compares with NULL and leaves no row.
queryset_NullPkExcludesAll(st, pk) == IF pk = NoPk THEN {} ELSE {p \in DOMAIN st : p # pk}

\* mixins.py 55: manager.exclude(pk=self.instance.pk), as the set of pks left.
\* No row has a NULL pk, so exclude(pk=None) leaves every row.
queryset(st, pk) == {p \in DOMAIN st : p # pk}

\* mixins.py 61: queryset.filter(**kw).exists(). An exact lookup of None is
\* IS NULL: it matches the rows holding NULL in that column.
Exists(st, qs, k) == \E p \in qs : \A f \in DOMAIN k : st[p][f] = k[f]

\* mixins.py 63-69: field.error_messages["unique"] % params.
UniqueMessage(field_name) == <<"unique", field_name>>

\* A message of a ValidationError raised by super().clean().
UpstreamMessage(key) == <<"invalid", key>>

\* What super().clean() may do: return, raise ValidationError(dict), or
\* raise ValidationError(list).
SuperCleanOutcomes ==
    { [raises |-> FALSE, error_dict |-> EmptyDict] }
    \cup { [raises |-> TRUE, error_dict |-> [k \in {f} |-> <<UpstreamMessage(f)>>]]
           : f \in {"rrp", NON_FIELD_ERRORS} }

\* mixins.py 21-24: e.update_error_dict(errors) on an empty dict.
UpstreamErrors(outcome) == IF outcome.raises THEN outcome.error_dict ELSE EmptyDict

\* mixins.py 56-61: the kw of every lookup the loop issues, by form field.
Lookups(o, inst, ff, cd) ==
    LET ut == unique_together(ff, unique_field_sets(o))
    IN  [field_name \in DOMAIN ut |-> kw(cd, inst, ut[field_name])]

\* Faulty variant of QueryCount: fields with the same merged group share one query.
QueryCount_PerMergedGroup(ks) == Cardinality({DOMAIN ks[f] : f \in DOMAIN ks})

\* mixins.py 56, 61: one exists() per key of the dict unique_together.
QueryCount(ks) == Cardinality(DOMAIN ks)

\* mixins.py 56-61: the form fields whose lookup finds a row.
Hits(o, st, inst, ff, cd) ==
    LET ks == Lookups(o, inst, ff, cd)
    IN  {field_name \in DOMAIN ks : Exists(st, queryset(st, inst.pk), ks[field_name])}

\* Faulty variant of CleanErrors: the ValidationError of super().clean() is not
\* caught, so the uniqueness check never runs after it.
CleanErrors_UpstreamAborts(o, st, inst, ff, cd, outcome) ==
    IF outcome.raises THEN outcome.error_dict
    ELSE [k \in Hits(o, st, inst, ff, cd) |-> <<UniqueMessage(k)>>]

\* mixins.py 70: errors.setdefault(field_name, []).append(message), for every hit.
CleanErrors(o, st, inst, ff, cd, outcome) ==
    LET up   == UpstreamErrors(outcome)
        hits == Hits(o, st, inst, ff, cd)
    IN  [k \in DOMAIN up \cup hits |->
            (IF k \in DOMAIN up THEN up[k] ELSE <<>>)
            \o (IF k \in hits THEN <<UniqueMessage(k)>> ELSE <<>>)]

---------------------------------------------------------------------------
\* The data store

\* The unique index a group puts on the table; NULLs never compare equal.
ViolatesIndex(st, row, group) ==
    /\ \A f \in group : row[f] # None
    /\ \E p \in DOMAIN st : \A f \in group : st[p][f] = row[f]

\* The groups the table indexes over all its rows: unique_together and the
\* UniqueConstraints on fields without a condition. A conditional constraint
\* indexes only the rows its condition selects, which are none of these rows.
IndexedGroups(o) ==
    {Range(o.unique_together[i]) : i \in DOMAIN o.unique_together}
    \cup {Range(o.constraints[i].fields) :
            i \in {j \in DOMAIN o.constraints :
                     /\ o.constraints[j].kind = "UniqueConstraint"
                     /\ ~o.constraints[j].condition
                     /\ o.constraints[j].fields # <<>>}}

\* Model.objects.create(**row) succeeds: no unconditional group is violated
\* (otherwise the store raises IntegrityError and the row is not written).
CanInsert(o, st, row) == \A group \in IndexedGroups(o) : ~ViolatesIndex(st, row, group)

---------------------------------------------------------------------------
\* Actions

NoForm == [pk |-> NoPk, attrs |-> EmptyDict]
NoOutcome == [raises |-> FALSE, error_dict |-> EmptyDict]

Init ==
    /\ opts \in ModelMetas
    /\ store = <<>>
    /\ instance = NoForm
    /\ form_fields = {}
    /\ cleaned_data = EmptyDict
    /\ super_clean = NoOutcome
    /\ errors = EmptyDict
    /\ raised = FALSE
    /\ lookups = EmptyDict
    /\ queries = 0
    /\ pc = "idle"

\* Model.objects.create(...): one more persisted row.
Create(row) ==
    /\ pc = "idle"
    /\ Len(store) < MaxRecords
    /\ CanInsert(opts, store, row)
    /\ store' = Append(store, row)
    /\ UNCHANGED <<opts, instance, form_fields, cleaned_data, super_clean,
                   errors, raised, lookups, queries, pc>>

\* An unsaved instance: Model(), or Model(author=...) with the related field
\* set by the view. A field never assigned is no attribute of the instance.
NewInstances == {[pk |-> NoPk, attrs |-> a] : a \in {EmptyDict, [f \in {"author"} |-> "x"]}}

\* The field tuples the form classes expose: ("title", "rrp") as in
\* tests/tests.py, one field alone, and "__all__".
FormFieldSets == {{"title", "rrp"}, {"author"}, {"rrp"}, Fields}

\* Fields whose per-field cleaning can fail (rrp: max_digits), which leaves
\* the field out of cleaned_data.
MayFail == {"rrp"}

\* The forms: the fields a form class exposes and, per form, the cleaned data
\* its per-field cleaning can leave.
Forms == UNION {{[fields |-> ff, cleaned_data |-> cd] :
                    cd \in {d \in Dicts(ff) : ff \ MayFail \subseteq DOMAIN d}} : ff \in FormFieldSets}

\* The instances a form can be built for.
Instances == NewInstances \cup {[pk |-> p, attrs |-> store[p]] : p \in DOMAIN store}

\* form_class(data, instance=inst), after the per-field cleaning: ff are the
\* form's fields and cd holds the fields whose cleaning passed.
BindForm(inst, ff, cd) ==
    /\ pc = "idle"
    /\ instance' = inst
    /\ form_fields' = ff
    /\ cleaned_data' = cd
    /\ pc' = "bound"
    /\ UNCHANGED <<opts, store, super_clean, errors, raised, lookups, queries>>

\* Faulty variant of Clean: the values are resolved with
\* self.cleaned_data.setdefault(f, getattr(...)), which writes every resolved
\* group field into cleaned_data.
Clean_SetsDefaults(outcome) ==
    /\ pc = "bound"
    /\ LET ks == Lookups(opts, instance, form_fields, cleaned_data)
           e  == CleanErrors(opts, store, instance, form_fields, cleaned_data, outcome)
       IN  /\ super_clean' = outcome
           /\ lookups' = ks
           /\ queries' = QueryCount(ks)
           /\ errors' = e
           /\ raised' = (DOMAIN e # {})
           /\ cleaned_data' =
                 [f \in DOMAIN cleaned_data \cup UNION {DOMAIN ks[fn] : fn \in DOMAIN ks} |->
                     Resolve(cleaned_data, instance, f)]
    /\ pc' = "cleaned"
    /\ UNCHANGED <<opts, store, instance, form_fields>>

\* UniqueTogetherMixin.clean().
Clean(outcome) ==
    /\ pc = "bound"
    /\ LET ks == Lookups(opts, instance, form_fields, cleaned_data)
           e  == CleanErrors(opts, store, instance, form_fields, cleaned_data, outcome)
       IN  /\ super_clean' = outcome
           /\ lookups' = ks
           /\ queries' = QueryCount(ks)
           /\ errors' = e
           /\ raised' = (DOMAIN e # {})
    /\ pc' = "cleaned"
    /\ UNCHANGED <<opts, store, instance, form_fields, cleaned_data>>

\* The form is dropped without saving.
Discard ==
    /\ pc = "cleaned"
    /\ instance' = NoForm
    /\ form_fields' = {}
    /\ cleaned_data' = EmptyDict
    /\ super_clean' = NoOutcome
    /\ errors' = EmptyDict
    /\ raised' = FALSE
    /\ lookups' = EmptyDict
    /\ queries' = 0
    /\ pc' = "idle"
    /\ UNCHANGED <<opts, store>>

Next ==
    \/ \E row \in Rows : Create(row)
    \/ \E inst \in Instances, form \in Forms : BindForm(inst, form.fields, form.cleaned_data)
    \/ \E outcome \in SuperCleanOutcomes : Clean(outcome)
    \/ Discard

Spec == Init /\ [][Next]_vars

---------------------------------------------------------------------------
\* Vocabulary of the properties, stated over the state alone

\* The unconditional uniqueness groups the model declares: unique_together and
\* the UniqueConstraints with fields and without condition or expressions.
UnconditionalGroups ==
    {Range(opts.unique_together[i]) : i \in DOMAIN opts.unique_together}
    \cup {Range(opts.constraints[i].fields) :
            i \in {j \in DOMAIN opts.constraints :
                     /\ opts.constraints[j].kind = "UniqueConstraint"
                     /\ ~opts.constraints[j].condition
                     /\ ~opts.constraints[j].expressions
                     /\ opts.constraints[j].fields # <<>>}}

\* The merged group of a field: the union of the unconditional groups it is in.
MergedGroup(f) == UNION {G \in UnconditionalGroups : f \in G}

\* The bound form fields that are in at least one unconditional group.
GroupFormFields == {f \in form_fields : \E G \in UnconditionalGroups : f \in G}

\* The value a field resolves to: cleaned value, else attribute, else null.
Resolved(f) ==
    IF f \in DOMAIN cleaned_data THEN cleaned_data[f]
    ELSE IF f \in DOMAIN instance.attrs THEN instance.attrs[f]
    ELSE None

\* The persisted records other than the form's instance.
Others == {p \in DOMAIN store : p # instance.pk}

\* Some record among ps holds the resolved values of every field of G.
MatchIn(ps, G) == \E p \in ps : \A f \in G : store[p][f] = Resolved(f)

\* The number of uniqueness messages the error mapping holds for key k.
UniqueCount(k) ==
    IF k \in DOMAIN errors
    THEN Cardinality({i \in DOMAIN errors[k] : errors[k][i][1] = "unique"})
    ELSE 0

HasUniqueError(k) == UniqueCount(k) > 0

---------------------------------------------------------------------------
\* C1: whenever the values resolved for an unconditional group G equal those
\* of a persisted record other than the form's instance, and the form binds a
\* field of G, clean() fails and every bound field of G carries a uniqueness
\* error, also when a field of G is in further groups. Stated for concrete
\* (non-null) values, the collisions the table's own index rejects.
C1_CollisionReported ==
    pc = "cleaned" =>
        \A G \in UnconditionalGroups :
            (/\ G \cap form_fields # {}
             /\ \A f \in G : Resolved(f) # None
             /\ MatchIn(Others, G))
                => /\ raised
                   /\ \A f \in G \cap form_fields : HasUniqueError(f)

\* C2: for a form on a persisted instance, a field none of whose lookups is
\* matched by another record gets no uniqueness error; the instance's own
\* record never counts.
C2_SelfExclusion ==
    (pc = "cleaned" /\ instance.pk # NoPk) =>
        \A f \in form_fields :
            ~MatchIn(Others, MergedGroup(f)) => ~HasUniqueError(f)

\* C2 witness: a persisted instance resubmits its own stored values, its own
\* record matches the lookup of "title", and clean() passes.
C2_Witness ==
    /\ pc = "cleaned"
    /\ instance.pk # NoPk
    /\ Len(store) = 2
    /\ "title" \in form_fields
    /\ DOMAIN cleaned_data = form_fields
    /\ \A f \in Fields : Resolved(f) # None
    /\ \A f \in DOMAIN cleaned_data : cleaned_data[f] = store[instance.pk][f]
    /\ MatchIn({instance.pk}, MergedGroup("title"))
    /\ ~raised

\* The model as if its constraints with a condition, with expressions or
\* without fields were not declared.
RECURSIVE WithoutSkipped(_)
WithoutSkipped(cs) ==
    IF cs = <<>> THEN <<>>
    ELSE (IF /\ Head(cs).kind = "UniqueConstraint"
             /\ (Head(cs).condition \/ Head(cs).expressions \/ Head(cs).fields = <<>>)
          THEN <<>> ELSE <<Head(cs)>>)
         \o WithoutSkipped(Tail(cs))

Undeclared == [unique_together |-> opts.unique_together,
               constraints |-> WithoutSkipped(opts.constraints)]

\* C3: the outcome of clean() (the error mapping, the lookups issued) is
\* the one it has for the model without its conditional, expression and
\* field-less constraints.
C3_SkippedConstraintsIgnored ==
    pc = "cleaned" =>
        /\ errors = CleanErrors(Undeclared, store, instance, form_fields,
                                cleaned_data, super_clean)
        /\ lookups = Lookups(Undeclared, instance, form_fields, cleaned_data)
        /\ raised = (DOMAIN errors # {})

\* C3 witness: the model declares a conditional constraint on (title, rrp),
\* another record duplicates the form's title and rrp, and "rrp" gets no error.
C3_Witness ==
    /\ pc = "cleaned"
    /\ opts = ConditionalMeta
    /\ {"title", "rrp"} \subseteq DOMAIN cleaned_data
    /\ \A f \in Fields : Resolved(f) # None
    /\ MatchIn(Others, {"title", "rrp"})
    /\ ~HasUniqueError("rrp")
    /\ ~raised

\* C4: the errors of the upstream clean step and the uniqueness errors are
\* raised together: every upstream message is kept under its key, and every
\* bound field whose lookup another record matches carries its uniqueness
\* error, whether or not the upstream step raised.
C4_ErrorsAccumulated ==
    pc = "cleaned" =>
        /\ super_clean.raises =>
              /\ raised
              /\ \A k \in DOMAIN super_clean.error_dict :
                    /\ k \in DOMAIN errors
                    /\ SubSeq(errors[k], 1, Len(super_clean.error_dict[k]))
                          = super_clean.error_dict[k]
        /\ \A f \in GroupFormFields :
              MatchIn(Others, MergedGroup(f)) => HasUniqueError(f)

\* C4 witness: the upstream step reports an error on rrp, another record
\* collides on title, and the failure carries both.
C4_Witness ==
    /\ pc = "cleaned"
    /\ instance.pk # NoPk
    /\ super_clean.raises
    /\ "rrp" \in DOMAIN super_clean.error_dict
    /\ raised
    /\ DOMAIN errors = {"title", "rrp"}
    /\ HasUniqueError("title")
    /\ errors["rrp"] = super_clean.error_dict["rrp"]

\* C5: every value of every lookup is the cleaned value when the field is a
\* key of the cleaned data (a cleaned None included), else the instance's
\* attribute, else null; so a form exposing part of a group still finds the
\* collision through the instance's stored values.
C5_ValueResolution ==
    pc = "cleaned" =>
        /\ \A fn \in DOMAIN lookups : \A f \in DOMAIN lookups[fn] :
              lookups[fn][f] = Resolved(f)
        /\ \A fn \in GroupFormFields :
              (~(MergedGroup(fn) \subseteq form_fields) /\ MatchIn(Others, MergedGroup(fn)))
                  => HasUniqueError(fn)

\* C5 witness: a form on title and rrp for a persisted instance; the lookup of
\* title takes author from the instance and finds the other record.
C5_Witness ==
    /\ pc = "cleaned"
    /\ instance.pk # NoPk
    /\ form_fields = {"title", "rrp"}
    /\ "title" \in DOMAIN lookups
    /\ "author" \in DOMAIN lookups["title"]
    /\ lookups["title"]["author"] = store[instance.pk]["author"]
    /\ lookups["title"]["title"] = cleaned_data["title"]
    /\ cleaned_data["title"] # store[instance.pk]["title"]
    /\ HasUniqueError("title")

\* C6: for an unsaved instance no record is excluded: a bound group field
\* carries a uniqueness error exactly when some persisted record matches its
\* merged group, and then clean() fails.
C6_UnsavedInstance ==
    (pc = "cleaned" /\ instance.pk = NoPk) =>
        /\ \A f \in GroupFormFields :
              HasUniqueError(f) <=> MatchIn(DOMAIN store, MergedGroup(f))
        /\ (\E f \in GroupFormFields : MatchIn(DOMAIN store, MergedGroup(f))) => raised

\* C6 witness: a new instance submits the title and author of the first of
\* two records and gets the error on title.
C6_Witness ==
    /\ pc = "cleaned"
    /\ instance.pk = NoPk
    /\ Len(store) = 2
    /\ form_fields = Fields
    /\ DOMAIN cleaned_data = Fields
    /\ cleaned_data["title"] = store[1]["title"]
    /\ cleaned_data["author"] = store[1]["author"]
    /\ HasUniqueError("title")
    /\ raised

\* C7: the keys carrying a uniqueness message are exactly the bound group
\* fields whose merged-group lookup another record matches; no key carries
\* more than one; clean() fails exactly when the error mapping is non-empty.
C7_ErrorsOnTriggeringFields ==
    pc = "cleaned" =>
        /\ {k \in Fields \cup {NON_FIELD_ERRORS} : HasUniqueError(k)}
              = {f \in GroupFormFields : MatchIn(Others, MergedGroup(f))}
        /\ \A k \in Fields \cup {NON_FIELD_ERRORS} : UniqueCount(k) <= 1
        /\ DOMAIN errors \subseteq Fields \cup {NON_FIELD_ERRORS}
        /\ raised <=> (DOMAIN errors # {})

\* C7 witness: a form on title and rrp collides through (title, author); the
\* error is on title alone and author, not on the form, gets none.
C7_Witness ==
    /\ pc = "cleaned"
    /\ instance.pk # NoPk
    /\ form_fields = {"title", "rrp"}
    /\ "author" \in MergedGroup("title")
    /\ MatchIn(Others, MergedGroup("title"))
    /\ DOMAIN errors = {"title"}
    /\ errors["title"] = <<UniqueMessage("title")>>
    /\ raised

\* C8 as stated: when A is only in group G1 and G1 shares a field with a
\* group G2 that does not contain A, the lookup triggered by A also covers
\* the fields of G2, and a record equal on G1 but different on G2 is no hit.
C8_MergeReachesOverlappingGroup ==
    pc = "cleaned" =>
        \A A \in DOMAIN lookups : \A G1, G2 \in UnconditionalGroups :
            (/\ A \in G1 /\ A \notin G2 /\ G1 \cap G2 # {}
             /\ \A G \in UnconditionalGroups : A \in G => G = G1)
                => /\ G2 \subseteq DOMAIN lookups[A]
                   /\ ~MatchIn(Others, G1 \cup G2) => ~HasUniqueError(A)

\* C8 amended: the lookup triggered by a field covers exactly the union of
\* the groups that contain that field. For A only in G1 it covers G1 alone,
\* so a record equal on G1 is a hit for A whatever its other fields hold; a
\* field in two groups is looked up under both.
C8_MergeIsPerField ==
    pc = "cleaned" =>
        /\ \A A \in DOMAIN lookups : \A G1 \in UnconditionalGroups :
              (A \in G1 /\ \A G \in UnconditionalGroups : A \in G => G = G1)
                  => /\ DOMAIN lookups[A] = G1
                     /\ MatchIn(Others, G1) => HasUniqueError(A)
        /\ \A B \in DOMAIN lookups : \A G1, G2 \in UnconditionalGroups :
              (B \in G1 /\ B \in G2) => (G1 \cup G2) \subseteq DOMAIN lookups[B]

\* C8 witness: groups (title, author) and (author, rrp); another record
\* equals the form on title and author and differs on rrp; title, only in
\* the first group, gets the error and author, in both, does not.
C8_Witness ==
    /\ pc = "cleaned"
    /\ opts = OverlapMeta
    /\ form_fields = Fields
    /\ \A f \in Fields : Resolved(f) # None
    /\ \E p \in Others : /\ store[p]["title"] = Resolved("title")
                         /\ store[p]["author"] = Resolved("author")
                         /\ store[p]["rrp"] \in Values \ {Resolved("rrp")}
    /\ DOMAIN lookups["title"] = {"title", "author"}
    /\ DOMAIN lookups["author"] = Fields
    /\ HasUniqueError("title")
    /\ ~HasUniqueError("author")

\* C9: a bound field all of whose groups have a field that resolves to null
\* triggers no lookup and gets no uniqueness error.
C9_UnresolvedGroupSkipped ==
    pc = "cleaned" =>
        \A fn \in GroupFormFields :
            (\A G \in UnconditionalGroups : fn \in G => \E f \in G : Resolved(f) = None)
                => /\ fn \notin DOMAIN lookups
                   /\ ~HasUniqueError(fn)

\* C10 as stated: every call of clean() issues exactly one existence query.
C10_ExactlyOneQuery == pc = "cleaned" => queries = 1

\* C10 amended: clean() issues one existence query per bound form field that
\* is in at least one unconditional group: none when there is no such field.
C10_OneQueryPerGroupField ==
    /\ pc = "cleaned" => queries = Cardinality(GroupFormFields)
    /\ pc # "cleaned" => queries = 0

\* C10 witness: a form on all three fields of the model with two overlapping
\* groups issues three queries.
C10_Witness ==
    /\ pc = "cleaned"
    /\ form_fields = Fields
    /\ Cardinality(GroupFormFields) = 3
    /\ queries = 3

\* C11: a call of clean() leaves the persisted records, the form's instance
\* and the cleaned data as they were, whether it passes, fails on a
\* uniqueness collision or fails on an upstream error; the model's metadata
\* and the form's fields are untouched as well.
C11_CleanLeavesDataUnchanged ==
    [][(pc = "bound" /\ pc' = "cleaned")
          => /\ store' = store
             /\ instance' = instance
             /\ cleaned_data' = cleaned_data
             /\ opts' = opts
             /\ form_fields' = form_fields]_vars

\* C11 witness: clean() has failed on a uniqueness collision and an upstream
\* error for a persisted instance on a form that leaves author to the
\* instance; the instance still equals its stored row, which differs from
\* the submitted title, and author is no key of the cleaned data.
C11_Witness ==
    /\ pc = "cleaned"
    /\ Len(store) = 2
    /\ instance.pk # NoPk
    /\ instance.attrs = store[instance.pk]
    /\ form_fields = {"title", "rrp"}
    /\ DOMAIN cleaned_data = {"title", "rrp"}
    /\ cleaned_data["title"] # store[instance.pk]["title"]
    /\ "author" \in DOMAIN lookups["title"]
    /\ super_clean.raises
    /\ HasUniqueError("title")
    /\ raised

=============================================================================
